---- MODULE Spec2Model ----
(***************************************************************************)
(* Model of plugins/modules/cassandra_verify.py: the NodeToolCmd command   *)
(* builder, the NodeToolCommand "verify" specialisation and main().        *)
(*                                                                         *)
(* A Python str is a sequence of one-character strings, so that endswith,  *)
(* strip, join and format are computed character by character.  Python's   *)
(* None is the one-element sequence <<"<None>">>, which is no str because  *)
(* its element is not a single character.                                  *)
(***************************************************************************)
EXTENDS Integers, Sequences, FiniteSets, TLC

VARIABLES params, n, pc, ran, ret, result, reported

vars == <<params, n, pc, ran, ret, result, reported>>

-----------------------------------------------------------------------------
(* Bounds *)

\* longest table list the caller passes
MaxTables == 2
\* number of times run_command is invoked on one builder (SpecBuilder only)
MaxBuilds == 2

-----------------------------------------------------------------------------
(* Values *)

None == <<"<None>">>

\* port=dict(type='int', default=7199)
DefaultPort == 7199

S_nodetool == <<"n","o","d","e","t","o","o","l">>
S_host == <<" ","-","-","h","o","s","t"," ">>
S_port == <<" ","-","-","p","o","r","t"," ">>
S_username == <<" ","-","-","u","s","e","r","n","a","m","e"," ">>
S_password_file == <<" ","-","-","p","a","s","s","w","o","r","d","-","f","i","l","e"," ">>
S_password == <<" ","-","-","p","a","s","s","w","o","r","d"," ">>
S_quote == <<"'">>
S_space == <<" ">>
S_extended == <<" ","-","e">>
S_verify == <<"v","e","r","i","f","y">>
S_None == <<"N","o","n","e">>

MsgSuccess == "nodetool verify executed successfully"
MsgFailure == "nodetool verify did not execute successfully"

\* characters removed by str.strip() with no argument
Whitespace == {" ", "\n", "\t", "\r"}

Digit(d) == CASE d = 0 -> "0" [] d = 1 -> "1" [] d = 2 -> "2" [] d = 3 -> "3"
              [] d = 4 -> "4" [] d = 5 -> "5" [] d = 6 -> "6" [] d = 7 -> "7"
              [] d = 8 -> "8" [] d = 9 -> "9"

RECURSIVE Digits(_)
Digits(i) == IF i < 10 THEN <<Digit(i)>> ELSE Append(Digits(i \div 10), Digit(i % 10))

\* "{0}".format(i) for an int
IntToStr(i) == IF i < 0 THEN <<"-">> \o Digits(0 - i) ELSE Digits(i)

\* "{0}".format(v) for a str or None
Format(v) == IF v = None THEN S_None ELSE v

\* s.endswith('/')
EndsWithSlash(s) == Len(s) > 0 /\ s[Len(s)] = "/"

RECURSIVE LStrip(_)
LStrip(s) == IF s # <<>> /\ Head(s) \in Whitespace THEN LStrip(Tail(s)) ELSE s

RECURSIVE RStrip(_)
RStrip(s) == IF s # <<>> /\ s[Len(s)] \in Whitespace
             THEN RStrip(SubSeq(s, 1, Len(s) - 1)) ELSE s

\* s.strip()
Strip(s) == RStrip(LStrip(s))

\* " ".join(items) raises TypeError when an item is not a str
JoinRaises(items) == \E i \in DOMAIN items : ~items[i].isstr

RECURSIVE Join(_)
Join(items) == IF items = <<>> THEN <<>>
               ELSE IF Len(items) = 1 THEN items[1].val
               ELSE items[1].val \o S_space \o Join(Tail(items))

-----------------------------------------------------------------------------
(* Parameter sets: what AnsibleModule can hand to the module *)

Hosts == {None, <<>>, <<"h","1">>}
Fqdns == {<<"n","1",".","x">>}
Ports == {DefaultPort}
Usernames == {None, <<"u">>}
Passwords == {None, <<"p","w">>}
PasswordFiles == {None, <<"/","f">>}
Keyspaces == {None, <<"k","s">>}
NodetoolPaths == {None, <<>>, <<"/","o">>, <<"/","o","/">>}

TableNames == {<<"a">>, <<"b">>}
StrItem(s) == [isstr |-> TRUE, val |-> s]
IntItem == [isstr |-> FALSE, val |-> <<"1">>]

RECURSIVE ListsUpTo(_)
ListsUpTo(k) == IF k = 0 THEN {<<>>}
                ELSE ListsUpTo(k - 1) \cup
                     {Append(l, StrItem(t)) : l \in {m \in ListsUpTo(k - 1) : Len(m) = k - 1},
                                             t \in TableNames}

\* table=dict(type='raw'): None, a str, a list of str, a list holding a
\* non-str, or a value that is neither a str nor a list
Tables == {[kind |-> "none", str |-> <<>>, items |-> <<>>],
           [kind |-> "str", str |-> <<"a">>, items |-> <<>>],
           [kind |-> "other", str |-> <<>>, items |-> <<>>],
           [kind |-> "list", str |-> <<>>, items |-> <<StrItem(<<"a">>), IntItem>>]}
          \cup {[kind |-> "list", str |-> <<>>, items |-> l] : l \in ListsUpTo(MaxTables)}

Params == [host : Hosts, port : Ports, password : Passwords,
           password_file : PasswordFiles, username : Usernames,
           keyspace : Keyspaces, table : Tables, extended : BOOLEAN,
           nodetool_path : NodetoolPaths]

\* what module.run_command can return
ReturnCodes == {0, 1, 2}
Stdouts == {<<>>, <<" ">>, <<" ","O","K","\n">>}
Stderrs == {<<>>, <<"c","o","r","r","u","p","t","\n">>}

-----------------------------------------------------------------------------
(* NodeToolCmd *)

\* lines 105-109: the value self.nodetool_path holds after the if/else
NormalisePath(path) ==
    IF path # None /\ Len(path) > 0 /\ ~EndsWithSlash(path)
    THEN path \o <<"/">>
    ELSE <<>>

PasswordFlagUnquoted(password) == S_password \o Format(password)

\* line 118
PasswordFlag(password) == S_password \o S_quote \o Format(password) \o S_quote

AuthFlagsPasswordFirst(username, password, password_file) ==
    IF username # None
    THEN S_username \o Format(username) \o
         (IF password # None
          THEN PasswordFlag(password)
          ELSE S_password_file \o Format(password_file))
    ELSE <<>>

\* lines 113-118
AuthFlags(username, password, password_file) ==
    IF username # None
    THEN S_username \o Format(username) \o
         (IF password_file # None
          THEN S_password_file \o Format(password_file)
          ELSE PasswordFlag(password))
    ELSE <<>>

\* lines 110-120: the string handed to execute_command
BuildCmd(path, host, port, username, password, password_file, sub_command) ==
    Format(path) \o S_nodetool \o S_host \o Format(host) \o S_port \o IntToStr(port)
      \o AuthFlags(username, password, password_file)
      \o S_space \o Format(sub_command)

\* NodeToolCmd.__init__
NodeToolCmdInit(p, fqdn) ==
    [host |-> IF p.host = None THEN fqdn ELSE p.host,
     port |-> p.port,
     password |-> p.password,
     password_file |-> p.password_file,
     username |-> p.username,
     nodetool_path |-> p.nodetool_path]

-----------------------------------------------------------------------------
(* NodeToolCommand *)

\* lines 139-148: the fragment stored in self.cmd
SubCommand(p, cmd) ==
    LET c1 == IF p.extended THEN Format(cmd) \o S_extended ELSE cmd
        c2 == IF p.keyspace # None THEN Format(c1) \o S_space \o Format(p.keyspace) ELSE c1
    IN  IF p.table.kind = "str" THEN Format(c2) \o S_space \o Format(p.table.str)
        ELSE IF p.table.kind = "list" THEN Format(c2) \o S_space \o Join(p.table.items)
        ELSE c2

\* the join of line 147 is reached and raises
InitRaises(p) == p.table.kind = "list" /\ JoinRaises(p.table.items)

NoObject == [host |-> None, port |-> 0, password |-> None, password_file |-> None,
             username |-> None, nodetool_path |-> None, keyspace |-> None,
             extended |-> FALSE, cmd |-> None]

NoReturn == [rc |-> None, out |-> <<>>, err |-> <<>>]

EmptyResult == [x \in {} |-> 0]

-----------------------------------------------------------------------------
(* main *)

ExitResultAlwaysRc(rc, out, err) ==
    LET o == Strip(out)
        e == Strip(err)
        r1 == IF o # <<>> THEN "stdout" :> o ELSE EmptyResult
        r2 == IF e # <<>> THEN r1 @@ ("stderr" :> e) ELSE r1
    IN  r2 @@ ("rc" :> rc) @@ ("changed" :> (rc = 0))
           @@ ("msg" :> IF rc = 0 THEN MsgSuccess ELSE MsgFailure)

\* lines 175-193: the structure passed to exit_json
ExitResult(rc, out, err) ==
    LET o == Strip(out)
        e == Strip(err)
        r1 == IF o # <<>> THEN "stdout" :> o ELSE EmptyResult
        r2 == IF e # <<>> THEN r1 @@ ("stderr" :> e) ELSE r1
    IN  IF rc = 0
        THEN r2 @@ ("changed" :> TRUE) @@ ("msg" :> MsgSuccess)
        ELSE r2 @@ ("rc" :> rc) @@ ("changed" :> FALSE) @@ ("msg" :> MsgFailure)

Init ==
    /\ params \in Params
    /\ n = NoObject
    /\ pc = "start"
    /\ ran = <<>>
    /\ ret = NoReturn
    /\ result = EmptyResult
    /\ reported = <<>>

\* line 170: n = NodeToolCommand(module, 'verify')
Construct ==
    /\ pc = "start"
    /\ IF InitRaises(params)
       THEN /\ pc' = "raised"
            /\ n' = n
       ELSE /\ \E fqdn \in Fqdns :
                 n' = NodeToolCmdInit(params, fqdn) @@
                      [keyspace |-> params.keyspace,
                       extended |-> params.extended,
                       cmd |-> SubCommand(params, S_verify)]
            /\ pc' = "constructed"
    /\ UNCHANGED <<params, ran, ret, result, reported>>

\* lines 104-121: nodetool_cmd(self.cmd), the runner returning (rc, out, err)
nodetool_cmd(sub_command) ==
    LET path == NormalisePath(n.nodetool_path)
    IN  /\ n' = [n EXCEPT !.nodetool_path = path]
        /\ ran' = Append(ran, BuildCmd(path, n.host, n.port, n.username,
                                       n.password, n.password_file, sub_command))
        /\ \E rc \in ReturnCodes, out \in Stdouts, err \in Stderrs :
               ret' = [rc |-> rc, out |-> out, err |-> err]

\* line 177: (rc, out, err) = n.run_command()
RunCommand ==
    /\ pc = "constructed"
    /\ nodetool_cmd(n.cmd)
    /\ pc' = "executed"
    /\ UNCHANGED <<params, result, reported>>

\* lines 178-193
Report ==
    /\ pc = "executed"
    /\ result' = ExitResult(ret.rc, ret.out, ret.err)
    /\ reported' = Append(reported, result')
    /\ pc' = "reported"
    /\ UNCHANGED <<params, n, ran, ret>>

Next == Construct \/ RunCommand \/ Report

Spec == Init /\ [][Next]_vars

\* run_command invoked repeatedly on one constructed builder
Rebuild ==
    /\ pc \in {"constructed", "executed"}
    /\ Len(ran) < MaxBuilds
    /\ nodetool_cmd(n.cmd)
    /\ pc' = "executed"
    /\ UNCHANGED <<params, result, reported>>

NextBuilder == Construct \/ Rebuild

SpecBuilder == Init /\ [][NextBuilder]_vars

-----------------------------------------------------------------------------
(* Vocabulary of the properties *)

StartsWith(s, pre) == Len(pre) <= Len(s) /\ SubSeq(s, 1, Len(pre)) = pre

EndsWith(s, suf) == Len(suf) <= Len(s) /\ SubSeq(s, Len(s) - Len(suf) + 1, Len(s)) = suf

\* the words of s, cut at every space (s.split(" "))
RECURSIVE SplitFrom(_, _, _)
SplitFrom(s, i, word) ==
    IF i > Len(s) THEN <<word>>
    ELSE IF s[i] = " " THEN <<word>> \o SplitFrom(s, i + 1, <<>>)
    ELSE SplitFrom(s, i + 1, Append(word, s[i]))

Words(s) == SplitFrom(s, 1, <<>>)

Tokens(s) == LET w == Words(s) IN {w[i] : i \in DOMAIN w}

\* the words that directly follow the word flag in s
ArgsOf(s, flag) ==
    LET w == Words(s) IN {w[i + 1] : i \in {k \in 1..(Len(w) - 1) : w[k] = flag}}

\* the word of the command that names the binary
BinaryPrefix(cmd) == Words(cmd)[1]

T_username == <<"-","-","u","s","e","r","n","a","m","e">>
T_password == <<"-","-","p","a","s","s","w","o","r","d">>
T_password_file == <<"-","-","p","a","s","s","w","o","r","d","-","f","i","l","e">>
T_host == <<"-","-","h","o","s","t">>

AllWhitespace(s) == \A i \in DOMAIN s : s[i] \in Whitespace

\* t is s without its leading and trailing whitespace
IsTrimOf(t, s) ==
    /\ t # <<>> => (t[1] \notin Whitespace /\ t[Len(t)] \notin Whitespace)
    /\ \E i \in 0..Len(s) :
          /\ i + Len(t) <= Len(s)
          /\ SubSeq(s, i + 1, i + Len(t)) = t
          /\ AllWhitespace(SubSeq(s, 1, i))
          /\ AllWhitespace(SubSeq(s, i + Len(t) + 1, Len(s)))

CommandBuilt == ran # <<>>

TableIsNameList ==
    /\ params.table.kind = "list"
    /\ \A i \in DOMAIN params.table.items : params.table.items[i].isstr

-----------------------------------------------------------------------------
(* Properties *)

\* C1: the binary prefix of the first command built is "nodetool" when
\* nodetool_path is unset or empty, "<path>/nodetool" when the path does not
\* end in '/', and "<path>nodetool" when the path already ends in '/'.
C1_BinaryPrefix ==
    CommandBuilt =>
        BinaryPrefix(ran[1]) =
            IF params.nodetool_path = None \/ params.nodetool_path = <<>>
            THEN S_nodetool
            ELSE IF EndsWithSlash(params.nodetool_path)
                 THEN params.nodetool_path \o S_nodetool
                 ELSE params.nodetool_path \o <<"/">> \o S_nodetool

\* C2: when username and password_file are both set, the command carries
\* --password-file followed by the file path and no --password flag.
C2_PasswordFilePrecedence ==
    (CommandBuilt /\ params.username # None /\ params.password_file # None) =>
        /\ ArgsOf(ran[1], T_password_file) = {params.password_file}
        /\ T_password \notin Tokens(ran[1])
        /\ params.password # None =>
              /\ params.password \notin Tokens(ran[1])
              /\ S_quote \o params.password \o S_quote \notin Tokens(ran[1])

C2_Witness ==
    /\ pc = "executed"
    /\ params.username # None
    /\ params.password_file # None
    /\ params.password # None

\* C3: with username and password set and password_file unset, the command
\* is "<binary> --host <host> --port <port> --username <username>
\* --password '<password>' <sub-command>".
C3_QuotedPassword ==
    (CommandBuilt /\ params.username # None /\ params.password_file = None
       /\ params.password # None) =>
        LET binary == BinaryPrefix(ran[1]) IN
            ran[1] = binary \o S_host \o n.host \o S_port \o IntToStr(params.port)
                       \o S_username \o params.username
                       \o S_password \o <<"'">> \o params.password \o <<"'">>
                       \o S_space \o n.cmd

C3_Witness ==
    /\ pc = "executed"
    /\ params.username # None
    /\ params.password_file = None
    /\ params.password # None
    /\ StartsWith(n.cmd, S_verify)

\* C4: when table is a list of names, the fragment ends with the names
\* joined by single spaces in the order given and has no leading or
\* trailing space.
C4_TableList ==
    (pc \in {"constructed", "executed", "reported"} /\ TableIsNameList) =>
        /\ EndsWith(n.cmd, Join(params.table.items))
        /\ n.cmd[1] # " "
        /\ n.cmd[Len(n.cmd)] # " "

\* C5: the reported result has changed = TRUE exactly when rc = 0, the
\* success message when rc = 0 and the failure message otherwise, the rc
\* field only when rc # 0, and stdout / stderr only when non-empty after
\* trimming, with the trimmed value.
C5_Result ==
    pc = "reported" =>
        LET r == reported[1] IN
        /\ r["changed"] = (ret.rc = 0)
        /\ r["msg"] = IF ret.rc = 0 THEN MsgSuccess ELSE MsgFailure
        /\ ("rc" \in DOMAIN r) <=> (ret.rc # 0)
        /\ ("rc" \in DOMAIN r) => r["rc"] = ret.rc
        /\ ("stdout" \in DOMAIN r) <=> ~AllWhitespace(ret.out)
        /\ ("stdout" \in DOMAIN r) => IsTrimOf(r["stdout"], ret.out)
        /\ ("stderr" \in DOMAIN r) <=> ~AllWhitespace(ret.err)
        /\ ("stderr" \in DOMAIN r) => IsTrimOf(r["stderr"], ret.err)
        /\ DOMAIN r \subseteq {"changed", "msg", "rc", "stdout", "stderr"}

C5_Witness ==
    /\ pc = "reported"
    /\ ret.rc # 0
    /\ ret.out # <<>>
    /\ "stdout" \notin DOMAIN result
    /\ "stderr" \in DOMAIN result
    /\ result["stderr"] # ret.err

\* C6: the module never raises, whatever the accepted parameters are.
C6_NeverRaises == pc # "raised"

\* C7: the host used in "--host <host>" of a built command is non-empty.
C7_HostNonEmpty ==
    CommandBuilt => <<>> \notin ArgsOf(ran[1], T_host)

\* C8: building a command leaves host, port, username, password,
\* password_file and nodetool_path of the builder unchanged, and successive
\* builds hand the same command to the process-runner.
C8_BuildIsPure ==
    CommandBuilt =>
        /\ IF params.host = None THEN n.host \in Fqdns ELSE n.host = params.host
        /\ n.port = params.port
        /\ n.username = params.username
        /\ n.password = params.password
        /\ n.password_file = params.password_file
        /\ n.nodetool_path = params.nodetool_path
        /\ \A i, j \in DOMAIN ran : ran[i] = ran[j]

\* C9: every run of main ends with the process-runner called exactly once
\* and the result reported exactly once, the report coming after the runner
\* has returned.
C9_BuildExecuteReport ==
    /\ Len(ran) <= 1
    /\ Len(reported) <= Len(ran)
    /\ (~ENABLED Next) => (Len(ran) = 1 /\ Len(reported) = 1)

\* C10: with username unset the command holds none of --username,
\* --password, --password-file; with username set and password and
\* password_file both unset it holds --username and no --password flag.
C10_OnlySuppliedCredentials ==
    CommandBuilt =>
        /\ params.username = None =>
              Tokens(ran[1]) \cap {T_username, T_password, T_password_file} = {}
        /\ (params.username # None /\ params.password = None
              /\ params.password_file = None) =>
              /\ T_username \in Tokens(ran[1])
              /\ T_password \notin Tokens(ran[1])

====
